---------------------------- MODULE Spec2Model ----------------------------
(***************************************************************************)
(* Model of src/include/sdg/DependencyGraph.h: the node store              *)
(* (TDependencyGraph), the simple dependency graph                         *)
(* (TSimpleDependencyGraph), the read/write dependency graph               *)
(* (TRWDependencyGraph) and the Kahn sorter (TKahnTopologicalSort).        *)
(*                                                                         *)
(* Node ids are 0-based as in the source.  A std::unordered_map is a       *)
(* function whose DOMAIN is its key set; a std::vector is a sequence.      *)
(* The order in which a range-for visits a std::unordered_map is not fixed *)
(* by the language: it is a property of the container's present bucket     *)
(* layout, stays the same while the container is not modified, and may     *)
(* change arbitrarily when a key is inserted (rehash).  It is modelled by  *)
(* the variable iterOrder.                                                 *)
(***************************************************************************)
EXTENDS Integers, Sequences, FiniteSets, TLC

(***************************************************************************)
(* Bounds of the model.                                                    *)
(***************************************************************************)
MaxNodes == 3
MaxDependencies == 3
MaxAccesses == 3

\* The payloads addNode is called with and the resource keys of the accesses.
Payloads == {"p"}
Resources == {"R", "S"}

VARIABLES
    kind,            \* which class was instantiated: "simple" or "rw"
    nodes,           \* TDependencyGraph::nodes
    dependencies,    \* TSimpleDependencyGraph::dependencies
    rwDependencies,  \* TRWDependencyGraph::dependencies
    iterOrder,       \* the order in which a range-for visits rwDependencies
    chron,           \* history: every addRead/addWrite call, in call order
    result,          \* what the latest call returned, if it was buildExecutionOrder
    rwDependenciesB, \* a second TRWDependencyGraph over the same nodes (SpecPair)
    iterOrderB,      \* the order in which a range-for visits rwDependenciesB
    chronB,          \* history of the addRead/addWrite calls on the second graph
    policy,          \* the bucket layout the build gives each key insertion sequence
    kahn             \* the locals of a sorter call in progress (SpecKahn)

vars == <<kind, nodes, dependencies, rwDependencies, iterOrder, chron, result,
          rwDependenciesB, iterOrderB, chronB, policy, kahn>>

pairVars == <<rwDependenciesB, iterOrderB, chronB, policy>>

(***************************************************************************)
(* Small helpers.                                                          *)
(***************************************************************************)
EmptyMap == [k \in {} |-> <<>>]

Range(s) == {s[i] : i \in 1 .. Len(s)}

\* Every sequence that lists each element of S exactly once.
Orderings(S) ==
    {p \in [1 .. Cardinality(S) -> S] : \A i, j \in 1 .. Cardinality(S) : p[i] = p[j] => i = j}

NodeIds == 0 .. (Len(nodes) - 1)

\* The directed edges (key, element) a map key -> vector<element> holds.
EdgeSet(map) ==
    UNION {{<<k, map[k][i]>> : i \in 1 .. Len(map[k])} : k \in DOMAIN map}

\* The number of elements the vectors of a map hold together.
EntryCount(map) ==
    Cardinality(UNION {{<<k, i>> : i \in 1 .. Len(map[k])} : k \in DOMAIN map})

(***************************************************************************)
(* TKahnTopologicalSort::operator()                                        *)
(***************************************************************************)
\* for (size_t i = 0; i < nodes.size(); ++i) inDegree.push_back(0);
ZeroInDegree(n) == [i \in 0 .. (n - 1) |-> 0]

\* A plausible slip: counting each dependent of a node once however often it
\* is listed, while the loop still decrements once per listed entry.
IncrementEachDistinct(inDegree, tos) ==
    [v \in DOMAIN inDegree |-> inDegree[v] + IF v \in Range(tos) THEN 1 ELSE 0]

\* for (size_t to : dependencies.at(i)) ++inDegree[to];
RECURSIVE IncrementEach(_, _)
IncrementEach(inDegree, tos) ==
    IF tos = <<>> THEN inDegree
    ELSE IncrementEach([inDegree EXCEPT ![Head(tos)] = @ + 1], Tail(tos))

\* for (size_t i = 0; i < nodes.size(); ++i) if (dependencies.find(i) != end) ...
RECURSIVE CountInDegree(_, _, _, _)
CountInDegree(i, n, deps, inDegree) ==
    IF i >= n THEN inDegree
    ELSE CountInDegree(i + 1, n, deps,
                       IF i \in DOMAIN deps THEN IncrementEach(inDegree, deps[i])
                       ELSE inDegree)

\* for (size_t id = 0; id < inDegree.size(); ++id) if (inDegree[id] == 0) q.push(id);
RECURSIVE SeedQueue(_, _, _, _)
SeedQueue(id, n, inDegree, q) ==
    IF id >= n THEN q
    ELSE SeedQueue(id + 1, n, inDegree,
                   IF inDegree[id] = 0 THEN Append(q, id) ELSE q)

\* A plausible slip: if (inDegree[dependency]-- == 0), testing the value before
\* the decrement.
PostDecrementIsZero(old) == old = 0

\* A plausible slip: the dependent pushed at every decrement, the test of the
\* in-degree left out.
PushAlways(old) == TRUE

\* if (--inDegree[dependency] == 0): old is the value before the decrement.
PreDecrementIsZero(old) == old - 1 = 0

\* A plausible slip: if (inDegree[dependency] - 1 == 0), testing the decremented
\* value without storing it.
ReleaseWithoutStore(dependency, st) ==
    [st EXCEPT !.q = IF PreDecrementIsZero(st.inDegree[dependency])
                     THEN Append(@, dependency) ELSE @]

\* if (--inDegree[dependency] == 0) q.push(dependency);
Release(dependency, st) ==
    LET old == st.inDegree[dependency]
    IN [st EXCEPT !.inDegree[dependency] = old - 1,
                  !.q = IF PreDecrementIsZero(old)
                        THEN Append(@, dependency) ELSE @]

\* for (auto& dependency : dependencies.at(id))
\*     if (--inDegree[dependency] == 0) q.push(dependency);
RECURSIVE ReleaseDependents(_, _)
ReleaseDependents(tos, st) ==
    IF tos = <<>> THEN st
    ELSE ReleaseDependents(Tail(tos), Release(Head(tos), st))

\* A plausible slip: a std::stack in place of the std::queue, taking the node
\* that was pushed last.
DequeueLifo(st) ==
    [st EXCEPT !.q = SubSeq(@, 1, Len(@) - 1), !.order = Append(@, st.q[Len(st.q)])]

\* size_t id = q.front(); q.pop(); order.push_back(id);
Dequeue(st) == [st EXCEPT !.q = Tail(@), !.order = Append(@, Head(st.q))]

\* if (dependencies.count(id) == 0) continue; ... dependencies.at(id): the
\* dependents the inner loop visits for the node id.
DependentsOf(deps, id) == IF id \in DOMAIN deps THEN deps[id] ELSE <<>>

\* while (!q.empty()) { id = q.front(); q.pop(); order.push_back(id); ... }
RECURSIVE KahnLoop(_, _)
KahnLoop(deps, st) ==
    IF st.q = <<>> THEN st
    ELSE KahnLoop(deps,
             ReleaseDependents(DependentsOf(deps, Head(st.q)), Dequeue(st)))

\* A plausible slip: the length test left out.
CycleCheckDropped(order, n) == FALSE

\* A plausible slip: if (order.empty()), failing only when nothing was ordered.
CycleOnlyWhenEmpty(order, n) == order = <<>> /\ n # 0

\* if (order.size() != nodes.size()) throw std::runtime_error("Cycle detected ...");
CycleDetected(order, n) == Len(order) # n

\* No sorter call is in progress: its locals do not exist.
KahnIdle == [pc |-> "idle", inDegree |-> <<>>, q |-> <<>>, order |-> <<>>,
             pending |-> <<>>]

NoResult == [status |-> "none", order |-> <<>>]
CycleError == [status |-> "cycle", order |-> <<>>]
Returned(order) == [status |-> "order", order |-> order]

\* The locals of the sorter when its while loop is first tested: inDegree
\* counted, q seeded, order empty.  pc and pending tell where a call stands
\* when it is followed step by step: pending holds the dependents the inner
\* loop has still to visit.
KahnStart(n, deps) ==
    LET inDegree == CountInDegree(0, n, deps, ZeroInDegree(n))
    IN [pc |-> "loop",
        inDegree |-> inDegree,
        q |-> SeedQueue(0, n, inDegree, <<>>),
        order |-> <<>>,
        pending |-> <<>>]

\* The working state of the sorter when its loop has ended.
KahnFinal(n, deps) == KahnLoop(deps, KahnStart(n, deps))

TKahnTopologicalSort(n, deps) ==
    LET order == KahnFinal(n, deps).order
    IN IF CycleDetected(order, n) THEN CycleError ELSE Returned(order)

(***************************************************************************)
(* TRWDependencyGraph::buildExecutionOrder, hazard derivation              *)
(***************************************************************************)
\* size_t lastWriter = SIZE_MAX: the value (size_t)-1, which no node id equals.
SIZE_MAX == -1

\* struct Access { TDependencyType node; enum { READ, WRITE } type; }: the field
\* named node holds the resource.
Access(resource, type) == [node |-> resource, type |-> type]

\* struct ResourceState { size_t lastWriter = SIZE_MAX; unordered_set lastReaders; }
ResourceState == [lastWriter |-> SIZE_MAX, lastReaders |-> {}]

\* std::unordered_map<TDependencyType, ResourceState, Hasher> resourceStates;
InitialResourceStates == [r \in {} |-> ResourceState]

\* The locals of the call before the loops: outDependencies and resourceStates
\* are empty.  emitted is history: each emplace_back with the resource and the
\* kind of hazard that caused it.
InitialHazardState ==
    [outDependencies |-> EmptyMap,
     resourceStates |-> InitialResourceStates,
     emitted |-> {}]

\* resourceStates[access.node]: operator[] default-constructs a missing entry.
CurrentResourceState(resourceStates, resource) ==
    IF resource \in DOMAIN resourceStates THEN resourceStates[resource]
    ELSE ResourceState

\* outDependencies[from].emplace_back(to)
EmplaceBack(map, from, to) ==
    IF from \in DOMAIN map THEN [map EXCEPT ![from] = Append(@, to)]
    ELSE map @@ (from :> <<to>>)

\* outDependencies[from].emplace_back(node) for every from in froms.  The keys
\* are distinct, so the order of the emplace_backs does not show in the map.
RECURSIVE EmplaceBackAll(_, _, _)
EmplaceBackAll(map, froms, node) ==
    IF froms = {} THEN map
    ELSE LET from == CHOOSE f \in froms : TRUE
         IN EmplaceBackAll(EmplaceBack(map, from, node), froms \ {from}, node)

\* if (lastWriter != SIZE_MAX && lastWriter != node): the last writer, if it is
\* another node.  Used for RAW by a read and for WAW by a write.
OtherLastWriter(current, node) ==
    IF current.lastWriter # SIZE_MAX /\ current.lastWriter # node
    THEN {current.lastWriter} ELSE {}

\* A plausible slip: a read also waits on the readers before it.
ReadSourcesWithReaders(current, node) ==
    OtherLastWriter(current, node) \cup (current.lastReaders \ {node})

\* case Access::READ: the nodes the reading node is made to wait on.
ReadSources(current, node) == OtherLastWriter(current, node)

\* A plausible slip: the test reader != node left out.
WarSourcesUnchecked(current, node) == current.lastReaders

\* for (size_t reader : lastReaders) if (reader != node) ...
WarSources(current, node) == {reader \in current.lastReaders : reader # node}

Tagged(froms, node, resource, hazard) ==
    {[from |-> f, to |-> node, resource |-> resource, hazard |-> hazard] : f \in froms}

\* case Access::READ
ReadAccess(st, node, resource) ==
    LET current == CurrentResourceState(st.resourceStates, resource)
        raw == ReadSources(current, node)
    IN [outDependencies |-> EmplaceBackAll(st.outDependencies, raw, node),
        resourceStates |->
            (resource :> [current EXCEPT !.lastReaders = @ \cup {node}])
                @@ st.resourceStates,
        emitted |-> st.emitted \cup Tagged(raw, node, resource, "RAW")]

\* A plausible slip: the WAW edge left out when readers came between the two
\* writes, relying on the WAR edges alone.
WriteAccessWarOnly(st, node, resource) ==
    LET current == CurrentResourceState(st.resourceStates, resource)
        waw == IF current.lastReaders = {} THEN OtherLastWriter(current, node) ELSE {}
        war == WarSources(current, node)
    IN [outDependencies |->
            EmplaceBackAll(EmplaceBackAll(st.outDependencies, waw, node), war, node),
        resourceStates |->
            (resource :> [lastWriter |-> node, lastReaders |-> {}])
                @@ st.resourceStates,
        emitted |-> st.emitted \cup Tagged(waw, node, resource, "WAW")
                               \cup Tagged(war, node, resource, "WAR")]

\* case Access::WRITE
WriteAccess(st, node, resource) ==
    LET current == CurrentResourceState(st.resourceStates, resource)
        waw == OtherLastWriter(current, node)
        war == WarSources(current, node)
    IN [outDependencies |->
            EmplaceBackAll(EmplaceBackAll(st.outDependencies, waw, node), war, node),
        resourceStates |->
            (resource :> [lastWriter |-> node, lastReaders |-> {}])
                @@ st.resourceStates,
        emitted |-> st.emitted \cup Tagged(waw, node, resource, "WAW")
                               \cup Tagged(war, node, resource, "WAR")]

\* switch (access.type)
ProcessAccess(st, node, access) ==
    IF access.type = "READ" THEN ReadAccess(st, node, access.node)
    ELSE WriteAccess(st, node, access.node)

\* The accesses replayed one by one in the order of one chronological log.
RECURSIVE ReplayChronological(_, _)
ReplayChronological(st, log) ==
    IF log = <<>> THEN st
    ELSE ReplayChronological(ProcessAccess(st, Head(log).caller, Head(log).access),
                             Tail(log))

\* for (const auto& access : accesses)
RECURSIVE ProcessAccesses(_, _, _)
ProcessAccesses(st, node, accesses) ==
    IF accesses = <<>> THEN st
    ELSE ProcessAccesses(ProcessAccess(st, node, Head(accesses)), node, Tail(accesses))

\* for (const auto& [node, accesses] : dependencies), visiting the keys in the
\* order the container yields them.
RECURSIVE ProcessNodes(_, _, _)
ProcessNodes(st, deps, order) ==
    IF order = <<>> THEN st
    ELSE ProcessNodes(ProcessAccesses(st, Head(order), deps[Head(order)]),
                      deps, Tail(order))

\* A plausible slip: resourceStates declared static, so that a call which
\* follows another buildExecutionOrder starts from the states the earlier one left.
DeriveHazardsStale(deps, order) ==
    ProcessNodes(
        [InitialHazardState EXCEPT !.resourceStates =
            IF result.status = "none" THEN @
            ELSE ProcessNodes(InitialHazardState, deps, order).resourceStates],
        deps, order)

\* A plausible slip: one log of all calls kept and processed in call order,
\* in place of the per-node logs.
DeriveHazardsChronological(deps, order) ==
    ReplayChronological(InitialHazardState, chron)

\* The locals of the call when the sorter is invoked.
DeriveHazards(deps, order) == ProcessNodes(InitialHazardState, deps, order)

(***************************************************************************)
(* The operations of the three classes.                                    *)
(***************************************************************************)
\* std::vector<size_t> of a call that returned, or the exception it threw.
\* sorter(nodes, dependencies) of the simple graph; sorter(nodes, outDependencies)
\* of the read/write graph.
SorterInput ==
    IF kind = "simple" THEN dependencies
    ELSE DeriveHazards(rwDependencies, iterOrder).outDependencies

\* TDependencyGraph::addNode: the new node's id is nodes.size() before the call.
EmplaceNode(payload) ==
    /\ nodes' = Append(nodes, payload)
    /\ result' = NoResult
    /\ UNCHANGED <<kind, dependencies, rwDependencies, iterOrder, chron, kahn>>

AddNode(payload) ==
    /\ Len(nodes) < MaxNodes
    /\ EmplaceNode(payload)
    /\ UNCHANGED pairVars

\* A plausible slip: dependencies[node] = {dependency}, which replaces what
\* was recorded for the node.
AddDependencyReplacing(node, dependency) ==
    /\ kind = "simple"
    /\ node \in NodeIds /\ dependency \in NodeIds
    /\ EntryCount(dependencies) < MaxDependencies
    /\ dependencies' = (node :> <<dependency>>) @@ dependencies
    /\ result' = NoResult
    /\ UNCHANGED <<kind, nodes, rwDependencies, iterOrder, chron, kahn>>
    /\ UNCHANGED pairVars

\* TSimpleDependencyGraph::addDependency, called with two valid node ids.
AddDependency(node, dependency) ==
    /\ kind = "simple"
    /\ node \in NodeIds /\ dependency \in NodeIds
    /\ EntryCount(dependencies) < MaxDependencies
    /\ dependencies' = EmplaceBack(dependencies, node, dependency)
    /\ result' = NoResult
    /\ UNCHANGED <<kind, nodes, rwDependencies, iterOrder, chron, kahn>>
    /\ UNCHANGED pairVars

\* dependencies[node].emplace_back(Access{dependency, type}) of the read/write
\* graph: operator[] inserts the key node if it is missing, and an insertion
\* may leave the container's keys in any order.
EmplaceAccess(node, resource, type) ==
    /\ rwDependencies' = EmplaceBack(rwDependencies, node, Access(resource, type))
    /\ chron' = Append(chron, [caller |-> node, access |-> Access(resource, type)])
    /\ IF node \in DOMAIN rwDependencies
       THEN iterOrder' = iterOrder
       ELSE iterOrder' \in Orderings(DOMAIN rwDependencies \cup {node})
    /\ result' = NoResult
    /\ UNCHANGED <<kind, nodes, dependencies, kahn>>

\* TRWDependencyGraph::addRead, called with a valid node id.
AddRead(node, resource) ==
    /\ kind = "rw"
    /\ node \in NodeIds
    /\ Len(chron) < MaxAccesses
    /\ EmplaceAccess(node, resource, "READ")
    /\ UNCHANGED pairVars

\* TRWDependencyGraph::addWrite, called with a valid node id.
AddWrite(node, resource) ==
    /\ kind = "rw"
    /\ node \in NodeIds
    /\ Len(chron) < MaxAccesses
    /\ EmplaceAccess(node, resource, "WRITE")
    /\ UNCHANGED pairVars

\* A plausible slip: the sorter reading dependencies[i] of a non-const map,
\* where operator[] inserts an empty list for every node id it looks up.
BuildExecutionOrderInserting ==
    /\ result' = TKahnTopologicalSort(Len(nodes), SorterInput)
    /\ dependencies' = IF kind = "simple"
                       THEN [i \in NodeIds \cup DOMAIN dependencies |->
                                DependentsOf(dependencies, i)]
                       ELSE dependencies
    /\ UNCHANGED <<kind, nodes, rwDependencies, iterOrder, chron, kahn>>
    /\ UNCHANGED pairVars

\* buildExecutionOrder of either class.
BuildExecutionOrder ==
    /\ result' = TKahnTopologicalSort(Len(nodes), SorterInput)
    /\ UNCHANGED <<kind, nodes, dependencies, rwDependencies, iterOrder, chron, kahn>>
    /\ UNCHANGED pairVars

Empty ==
    /\ nodes = <<>>
    /\ dependencies = EmptyMap
    /\ rwDependencies = EmptyMap
    /\ iterOrder = <<>>
    /\ chron = <<>>
    /\ result = NoResult
    /\ rwDependenciesB = EmptyMap
    /\ iterOrderB = <<>>
    /\ chronB = <<>>
    /\ policy = {}
    /\ kahn = KahnIdle

Init == kind \in {"simple", "rw"} /\ Empty

Next ==
    \/ \E payload \in Payloads : AddNode(payload)
    \/ \E node, dependency \in 0 .. (MaxNodes - 1) : AddDependency(node, dependency)
    \/ \E node \in 0 .. (MaxNodes - 1), resource \in Resources : AddRead(node, resource)
    \/ \E node \in 0 .. (MaxNodes - 1), resource \in Resources : AddWrite(node, resource)
    \/ BuildExecutionOrder

Spec == Init /\ [][Next]_vars


(***************************************************************************)
(* Vocabulary of the properties.                                           *)
(***************************************************************************)
Built == result.status # "none"

\* a occurs in order, b occurs in order, and a's position is strictly smaller.
Before(order, a, b) ==
    /\ a \in Range(order)
    /\ b \in Range(order)
    /\ \A i, j \in 1 .. Len(order) : (order[i] = a /\ order[j] = b) => i < j

Successors(S, E) == {e[2] : e \in {x \in E : x[1] \in S}}

RECURSIVE Closure(_, _)
Closure(S, E) ==
    IF Successors(S, E) \subseteq S THEN S ELSE Closure(S \cup Successors(S, E), E)

\* The edge set E has a path of one or more edges from some node back to itself.
HasCycle(E) == \E e \in E : e[1] \in Closure(Successors({e[1]}, E), E)

\* order lists each of the ids 0 .. n-1 exactly once and nothing else.
IsPermutationOfIds(order, n) ==
    /\ Len(order) = n
    /\ \A id \in 0 .. (n - 1) : Cardinality({i \in 1 .. Len(order) : order[i] = id}) = 1

(***************************************************************************)
(* C1.  Simple graph: when the recorded edges hold no cycle,               *)
(* buildExecutionOrder returns an order in which, for every call           *)
(* addDependency(node, dependency) made, dependency stands at a strictly   *)
(* smaller position than node.                                             *)
(***************************************************************************)
C1_DependencyBeforeNode ==
    (kind = "simple" /\ Built /\ ~HasCycle(EdgeSet(dependencies))) =>
        /\ result.status = "order"
        /\ \A node \in DOMAIN dependencies :
             \A i \in 1 .. Len(dependencies[node]) :
                Before(result.order, dependencies[node][i], node)

(***************************************************************************)
(* C2.  Validity of the sorter: when the map handed to the sorter holds no *)
(* cycle, the sorter returns an order, and for every edge key -> element   *)
(* of the map the key stands at a strictly smaller position than the       *)
(* element.                                                                *)
(***************************************************************************)
C2_SorterRespectsEdges ==
    (Built /\ ~HasCycle(EdgeSet(SorterInput))) =>
        /\ result.status = "order"
        /\ \A e \in EdgeSet(SorterInput) : Before(result.order, e[1], e[2])

\* The sorter has run on a simple graph with a chain of two edges.
C2_Witness ==
    /\ kind = "simple"
    /\ result.status = "order"
    /\ \E a, b, c \in NodeIds :
         /\ Cardinality({a, b, c}) = 3
         /\ {<<a, b>>, <<b, c>>} \subseteq EdgeSet(dependencies)

(***************************************************************************)
(* C3.  Completeness: an order returned by buildExecutionOrder, of either  *)
(* graph kind, has the length of the node sequence and holds every id      *)
(* 0 .. nodeCount-1 exactly once.                                          *)
(***************************************************************************)
C3_OrderIsPermutation ==
    result.status = "order" => IsPermutationOfIds(result.order, Len(nodes))

\* A read/write graph of three nodes with derived edges was ordered.
C3_Witness ==
    /\ kind = "rw"
    /\ result.status = "order"
    /\ Len(nodes) >= 3
    /\ EdgeSet(SorterInput) # {}

(***************************************************************************)
(* C4.  Cycle detection: when the edges recorded in a simple graph hold a  *)
(* cycle (a self-loop, a mutual pair or a longer chain),                   *)
(* buildExecutionOrder fails with the cycle error and returns no order.    *)
(***************************************************************************)
C4_CycleFails ==
    (kind = "simple" /\ Built /\ HasCycle(EdgeSet(dependencies))) =>
        result = CycleError

\* The call failed although the loop had ordered some of the nodes: a partial
\* order existed and was not returned.
C4_Witness ==
    /\ kind = "simple"
    /\ result = CycleError
    /\ HasCycle(EdgeSet(dependencies))
    /\ KahnFinal(Len(nodes), dependencies).order # <<>>

(***************************************************************************)
(* Vocabulary of the read/write properties.                                *)
(***************************************************************************)
\* The locals of buildExecutionOrder of the read/write graph in this state.
Hazards == DeriveHazards(rwDependencies, iterOrder)

\* The types of the accesses to resource that node has declared.
AccessTypesOf(node, resource) ==
    IF node \in DOMAIN rwDependencies
    THEN {a.type : a \in {x \in Range(rwDependencies[node]) : x.node = resource}}
    ELSE {}

OnlyReads(node, resource) == AccessTypesOf(node, resource) = {"READ"}

(***************************************************************************)
(* C5.  Hazard derivation order: buildExecutionOrder of the read/write     *)
(* graph processes the accesses of each resource in the chronological      *)
(* order of their declaration, so the derived edge set equals the one      *)
(* obtained by replaying the single chronological log of all calls.        *)
(***************************************************************************)
C5_ChronologicalDerivation ==
    (kind = "rw" /\ Built) =>
        EdgeSet(Hazards.outDependencies)
            = EdgeSet(ReplayChronological(InitialHazardState, chron).outDependencies)

(***************************************************************************)
(* C7.  Read/read commutativity: an edge emitted while a read is processed *)
(* comes from a node that wrote the resource, never from a node that only  *)
(* read it; two distinct nodes that only read a resource get no edge from  *)
(* that resource in either direction, and two nodes that declared nothing  *)
(* but reads get no edge at all.                                           *)
(***************************************************************************)
C7_ReadsDoNotOrderReads ==
    (kind = "rw" /\ Built) =>
        /\ \A e \in Hazards.emitted :
             e.hazard = "RAW" => "WRITE" \in AccessTypesOf(e.from, e.resource)
        /\ \A resource \in Resources : \A x, y \in DOMAIN rwDependencies :
             (x # y /\ OnlyReads(x, resource) /\ OnlyReads(y, resource)) =>
                ~\E e \in Hazards.emitted :
                    e.resource = resource /\ {e.from, e.to} = {x, y}
        /\ \A x, y \in DOMAIN rwDependencies :
             (x # y /\ \A resource \in Resources :
                          AccessTypesOf(x, resource) \cup AccessTypesOf(y, resource)
                              \subseteq {"READ"}) =>
                {<<x, y>>, <<y, x>>} \cap EdgeSet(Hazards.outDependencies) = {}

\* Two nodes read a resource that a third node wrote, and the order was built.
C7_Witness ==
    /\ kind = "rw"
    /\ result.status = "order"
    /\ \E resource \in Resources : \E x, y, w \in DOMAIN rwDependencies :
         /\ x # y
         /\ OnlyReads(x, resource) /\ OnlyReads(y, resource)
         /\ {<<w, x>>, <<w, y>>} \subseteq EdgeSet(Hazards.outDependencies)

(***************************************************************************)
(* C8.  Self-access no-op: the derived edge set holds no edge (n, n), and  *)
(* a graph in which one node alone has declared accesses is ordered        *)
(* without a cycle failure.                                                *)
(***************************************************************************)
C8_NoSelfEdge ==
    (kind = "rw" /\ Built) =>
        /\ \A e \in EdgeSet(Hazards.outDependencies) : e[1] # e[2]
        /\ \A e \in Hazards.emitted : e.from # e.to
        /\ Cardinality(DOMAIN rwDependencies) = 1 => result.status = "order"

\* One node alone has read and written the same resource, and the order was built.
C8_Witness ==
    /\ kind = "rw"
    /\ Built
    /\ \E node \in DOMAIN rwDependencies : \E resource \in Resources :
         /\ DOMAIN rwDependencies = {node}
         /\ AccessTypesOf(node, resource) = {"READ", "WRITE"}

(***************************************************************************)
(* Repeated calls of buildExecutionOrder.  result holds the record of the  *)
(* latest call with its history: whether the call directly followed        *)
(* another buildExecutionOrder call, with no addNode, addDependency,       *)
(* addRead or addWrite between the two, and if so what that earlier call   *)
(* returned.  Any of those four calls replaces the record, so the history  *)
(* never reaches across one of them.                                       *)
(***************************************************************************)
\* What a call returned or threw, without the history.
Outcome(record) == [status |-> record.status, order |-> record.order]

\* The record of a call with the outcome now, made when the record of the
\* latest call was before.
Recorded(now, before) ==
    [status |-> now.status,
     order |-> now.order,
     repeated |-> before.status \in {"order", "cycle"},
     previous |-> IF before.status \in {"order", "cycle"} THEN Outcome(before)
                  ELSE NoResult]

\* buildExecutionOrder of either class: each call starts from the members as
\* they are and from locals of its own.
BuildExecutionOrderRecorded ==
    /\ result' = Recorded(TKahnTopologicalSort(Len(nodes), SorterInput), result)
    /\ UNCHANGED <<kind, nodes, dependencies, rwDependencies, iterOrder, chron, kahn>>
    /\ UNCHANGED pairVars

InitRebuild == Init

NextRebuild ==
    \/ \E payload \in Payloads : AddNode(payload)
    \/ \E node, dependency \in 0 .. (MaxNodes - 1) : AddDependency(node, dependency)
    \/ \E node \in 0 .. (MaxNodes - 1) : \E resource \in Resources :
          AddRead(node, resource)
    \/ \E node \in 0 .. (MaxNodes - 1) : \E resource \in Resources :
          AddWrite(node, resource)
    \/ BuildExecutionOrderRecorded

SpecRebuild == InitRebuild /\ [][NextRebuild]_vars

HazardScenario ==
    << [caller |-> 0, access |-> Access("R", "WRITE")],
       [caller |-> 1, access |-> Access("R", "READ")],
       [caller |-> 2, access |-> Access("R", "READ")],
       [caller |-> 3, access |-> Access("R", "WRITE")] >>

\* addNode, until the nodes of the script are registered.
ScenarioAddNode(payload) ==
    /\ kind = "rw"
    /\ Len(nodes) < Len(HazardScenario)
    /\ EmplaceNode(payload)
    /\ UNCHANGED pairVars

\* The next addRead/addWrite of the script, once its node is registered.
ScenarioAccess ==
    /\ kind = "rw"
    /\ Len(chron) < Len(HazardScenario)
    /\ LET call == HazardScenario[Len(chron) + 1]
       IN /\ call.caller \in NodeIds
          /\ EmplaceAccess(call.caller, call.access.node, call.access.type)
    /\ UNCHANGED pairVars

InitScenario == kind = "rw" /\ Empty

NextScenario ==
    \/ \E payload \in Payloads : ScenarioAddNode(payload)
    \/ ScenarioAccess
    \/ BuildExecutionOrder

SpecScenario == InitScenario /\ [][NextScenario]_vars

(***************************************************************************)
(* C6.  Hazard completeness scenario: A writes R, B reads R, C reads R,    *)
(* D writes R, declared in that order.  The derived edges include A->B,    *)
(* A->C, B->D and C->D, and the order returned has A before B and C, and   *)
(* B and C before D.                                                       *)
(***************************************************************************)
C6_HazardScenario ==
    (kind = "rw" /\ Built /\ Len(nodes) = Len(HazardScenario) /\ chron = HazardScenario) =>
        /\ {<<0, 1>>, <<0, 2>>, <<1, 3>>, <<2, 3>>} \subseteq EdgeSet(Hazards.outDependencies)
        /\ result.status = "order"
        /\ result.order \in {<<0, 1, 2, 3>>, <<0, 2, 1, 3>>}

(***************************************************************************)
(* Two read/write graphs over the same registered nodes.  The first takes  *)
(* addRead/addWrite calls; the second is given the same calls in another   *)
(* call order that keeps, for every resource, the order of the accesses to *)
(* it.  Both are objects of one build: the order in which a container      *)
(* yields its keys is a function of the sequence in which the keys were    *)
(* inserted, the same function for both (policy records it as it is        *)
(* first needed).                                                          *)
(***************************************************************************)
\* The callers of a log in the order of their first call: the order in which
\* operator[] inserted the keys.
RECURSIVE KeyInsertions(_)
KeyInsertions(log) ==
    IF log = <<>> THEN <<>>
    ELSE LET before == KeyInsertions(SubSeq(log, 1, Len(log) - 1))
             caller == log[Len(log)].caller
         IN IF caller \in Range(before) THEN before ELSE Append(before, caller)

\* The orders in which the container may yield its keys after the insertions keys.
LayoutChoices(keys) ==
    IF \E p \in policy : p.keys = keys
    THEN {p.order : p \in {q \in policy : q.keys = keys}}
    ELSE Orderings(Range(keys))

\* The accesses to one resource, in the order of a log.
PerResource(log, resource) ==
    SelectSeq(log, LAMBDA call : call.access.node = resource)

\* addRead/addWrite on the first graph.
PairDeclare(node, resource, type) ==
    /\ kind = "rw"
    /\ node \in NodeIds
    /\ Len(chron) < MaxAccesses
    /\ rwDependencies' = EmplaceBack(rwDependencies, node, Access(resource, type))
    /\ chron' = Append(chron, [caller |-> node, access |-> Access(resource, type)])
    /\ iterOrder' \in LayoutChoices(KeyInsertions(chron'))
    /\ policy' = policy \cup {[keys |-> KeyInsertions(chron'), order |-> iterOrder']}
    /\ UNCHANGED <<kind, nodes, dependencies, result, kahn>>
    /\ UNCHANGED <<rwDependenciesB, iterOrderB, chronB>>

\* addRead/addWrite on the second graph: the earliest access to resource of the
\* first graph's log that the second graph has not yet been given.
PairReplay(resource) ==
    /\ kind = "rw"
    /\ Len(PerResource(chronB, resource)) < Len(PerResource(chron, resource))
    /\ LET call == PerResource(chron, resource)[Len(PerResource(chronB, resource)) + 1]
       IN /\ rwDependenciesB' = EmplaceBack(rwDependenciesB, call.caller, call.access)
          /\ chronB' = Append(chronB, call)
    /\ iterOrderB' \in LayoutChoices(KeyInsertions(chronB'))
    /\ policy' = policy \cup {[keys |-> KeyInsertions(chronB'), order |-> iterOrderB']}
    /\ UNCHANGED <<kind, nodes, dependencies, result, kahn>>
    /\ UNCHANGED <<rwDependencies, iterOrder, chron>>

InitPair == kind = "rw" /\ Empty

NextPair ==
    \/ \E payload \in Payloads : AddNode(payload)
    \/ \E node \in 0 .. (MaxNodes - 1), resource \in Resources :
          PairDeclare(node, resource, "READ")
    \/ \E node \in 0 .. (MaxNodes - 1), resource \in Resources :
          PairDeclare(node, resource, "WRITE")
    \/ \E resource \in Resources : PairReplay(resource)

SpecPair == InitPair /\ [][NextPair]_vars

(***************************************************************************)
(* C9.  Declaration-order independence: two call sequences that give every *)
(* resource the same chronological sequence of (node, kind) accesses yield *)
(* the same hazard-derived edge set.                                       *)
(***************************************************************************)
C9_SameSequencesSameEdges ==
    (kind = "rw" /\ \A resource \in Resources :
                       PerResource(chron, resource) = PerResource(chronB, resource)) =>
        EdgeSet(DeriveHazards(rwDependencies, iterOrder).outDependencies)
            = EdgeSet(DeriveHazards(rwDependenciesB, iterOrderB).outDependencies)

(***************************************************************************)
(* C11.  buildExecutionOrder is a pure read: a call, whether it returns    *)
(* an order or fails with the cycle error, leaves the node sequence, the   *)
(* edge lists of the simple graph and the access logs of the read/write    *)
(* graph (with the layout of their container) as they were, and none of    *)
(* the sorter's locals outlives the call.                                  *)
(***************************************************************************)
C11_BuildIsPureRead ==
    [][(result'.status \in {"order", "cycle"}) =>
          /\ nodes' = nodes
          /\ dependencies' = dependencies
          /\ rwDependencies' = rwDependencies
          /\ iterOrder' = iterOrder
          /\ kahn' = KahnIdle]_vars

\* A call has failed on a simple graph that holds edges and a node outside
\* them, all still in place.
C11_Witness ==
    /\ kind = "simple"
    /\ result = CycleError
    /\ Len(nodes) = MaxNodes
    /\ \E id \in NodeIds : \A e \in EdgeSet(dependencies) : id # e[1] /\ id # e[2]

(***************************************************************************)
(* The node store: addNode and getNode of TDependencyGraph, with payloads  *)
(* that can be told apart.  result holds the record of the latest call:    *)
(* for addNode the id it returned and the payload it was given, for        *)
(* getNode the id it was given and the payload its reference leads to.     *)
(***************************************************************************)
MaxStoreDeclarations == 1

StorePayloads == {"p", "q"}

ReturnedId(id, payload) ==
    [status |-> "id", order |-> <<>>, id |-> id, payload |-> payload]

ReturnedNode(id, payload) ==
    [status |-> "node", order |-> <<>>, id |-> id, payload |-> payload]

\* nodes[id] with id >= nodes.size() is undefined behaviour: the build forms a
\* reference past the elements, which leads to whatever lies there, or the
\* process dies (a null data pointer, a hardened library's assertion).  No
\* exception is thrown in either case.
OutOfRangeOutcomes(id) ==
    {ReturnedNode(id, "garbage"),
     [status |-> "crash", order |-> <<>>, id |-> id, payload |-> "garbage"]}

\* A plausible slip: nodes.emplace(nodes.begin(), ...), putting the new node
\* first and so renumbering the others.
StoreAddNodeFront(payload) ==
    /\ Len(nodes) < MaxNodes
    /\ nodes' = <<payload>> \o nodes
    /\ result' = ReturnedId(Len(nodes), payload)
    /\ UNCHANGED <<kind, dependencies, rwDependencies, iterOrder, chron, kahn>>
    /\ UNCHANGED pairVars

\* TDependencyGraph::addNode:
\* nodeId = nodes.size(); nodes.emplace_back(args...); return nodeId;
StoreAddNode(payload) ==
    /\ Len(nodes) < MaxNodes
    /\ LET nodeId == Len(nodes)
       IN /\ nodes' = Append(nodes, payload)
          /\ result' = ReturnedId(nodeId, payload)
    /\ UNCHANGED <<kind, dependencies, rwDependencies, iterOrder, chron, kahn>>
    /\ UNCHANGED pairVars

\* TDependencyGraph::getNode: return nodes[id], with no test of id.
GetNode(id) ==
    /\ IF id < Len(nodes)
       THEN result' = ReturnedNode(id, nodes[id + 1])
       ELSE result' \in OutOfRangeOutcomes(id)
    /\ UNCHANGED <<kind, nodes, dependencies, rwDependencies, iterOrder, chron, kahn>>
    /\ UNCHANGED pairVars

\* The edges and accesses declared so far, on whichever graph this is.
Declarations == EntryCount(dependencies) + Len(chron)

\* The process is still running: no getNode call has killed it.
Alive == result.status # "crash"

InitStore == Init

NextStore ==
    \/ Alive /\ \E payload \in StorePayloads : StoreAddNode(payload)
    \/ Alive /\ \E id \in 0 .. MaxNodes : GetNode(id)
    \/ /\ Alive /\ Declarations < MaxStoreDeclarations
       /\ \E node, dependency \in 0 .. (MaxNodes - 1) :
             AddDependency(node, dependency)
    \/ /\ Alive /\ Declarations < MaxStoreDeclarations
       /\ \E node \in 0 .. (MaxNodes - 1) : \E resource \in Resources :
             AddRead(node, resource)
    \/ /\ Alive /\ Declarations < MaxStoreDeclarations
       /\ \E node \in 0 .. (MaxNodes - 1) : \E resource \in Resources :
             AddWrite(node, resource)
    \/ Alive /\ BuildExecutionOrder

SpecStore == InitStore /\ [][NextStore]_vars

(***************************************************************************)
(* C12.  Stable node identity: an addNode call returns the number of       *)
(* nodes stored before it and stores its payload under that id; no other   *)
(* call changes the number of nodes; no call removes a node or changes     *)
(* what is stored under an id; and getNode(k) with k in range leads to     *)
(* what is stored under k.  So the k-th addNode returns k and getNode(k)   *)
(* leads to its payload after any later calls.                             *)
(***************************************************************************)
C12_StableNodeIdentity ==
    [][/\ (result'.status = "id") =>
             /\ result'.id = Len(nodes)
             /\ Len(nodes') = Len(nodes) + 1
             /\ nodes'[result'.id + 1] = result'.payload
       /\ (result'.status # "id") => Len(nodes') = Len(nodes)
       /\ Len(nodes') >= Len(nodes)
       /\ \A k \in 1 .. Len(nodes) : nodes'[k] = nodes[k]
       /\ (result'.status = "node" /\ result'.id < Len(nodes')) =>
             result'.payload = nodes'[result'.id + 1]]_vars

\* getNode(0) has led to the first payload after a second, different payload
\* was added and an edge or access was declared and a third node added.
C12_Witness ==
    /\ result.status = "node"
    /\ result.id = 0
    /\ Len(nodes) = 3
    /\ nodes[1] # nodes[2]
    /\ result.payload = nodes[1]
    /\ Declarations > 0

(***************************************************************************)
(* C13.  getNode(id) with id >= nodeCount fails with an index error        *)
(* instead of reading outside the node sequence.                           *)
(***************************************************************************)
C13_OutOfRangeIsIndexError ==
    (result.status \in {"node", "crash", "index"} /\ result.id >= Len(nodes))
        => result.status = "index"

(***************************************************************************)
(* The sorter followed step by step: a buildExecutionOrder call of the     *)
(* simple graph enters the sorter, which dequeues one node per iteration   *)
(* of its while loop and visits one dependent per iteration of its inner   *)
(* loop, then returns or throws.  The graph is not touched while a call    *)
(* is in progress.                                                         *)
(***************************************************************************)
\* sorter(nodes, dependencies) entered: lines 129-145 have run.
KahnCall ==
    /\ kahn.pc = "idle"
    /\ kahn' = KahnStart(Len(nodes), SorterInput)
    /\ result' = NoResult
    /\ UNCHANGED <<kind, nodes, dependencies, rwDependencies, iterOrder, chron>>
    /\ UNCHANGED pairVars

\* One pass through lines 149-156: the loop test succeeds, the front node is
\* moved to order, and the inner loop is entered if the node has dependents.
KahnDequeue ==
    /\ kahn.pc = "loop"
    /\ kahn.q # <<>>
    /\ LET tos == DependentsOf(SorterInput, Head(kahn.q))
       IN kahn' = [Dequeue(kahn) EXCEPT !.pending = tos,
                                        !.pc = IF tos = <<>> THEN "loop" ELSE "for"]
    /\ UNCHANGED <<kind, nodes, dependencies, rwDependencies, iterOrder, chron, result>>
    /\ UNCHANGED pairVars

\* One pass through lines 156-161: the next dependent's in-degree is
\* decremented and the dependent is queued if that made it 0.
KahnRelease ==
    /\ kahn.pc = "for"
    /\ kahn' = [Release(Head(kahn.pending), kahn) EXCEPT
                   !.pending = Tail(@),
                   !.pc = IF Tail(kahn.pending) = <<>> THEN "loop" ELSE "for"]
    /\ UNCHANGED <<kind, nodes, dependencies, rwDependencies, iterOrder, chron, result>>
    /\ UNCHANGED pairVars

\* Lines 165-168: the loop test fails; the call throws or returns order.
KahnReturn ==
    /\ kahn.pc = "loop"
    /\ kahn.q = <<>>
    /\ result' = IF CycleDetected(kahn.order, Len(nodes)) THEN CycleError
                 ELSE Returned(kahn.order)
    /\ kahn' = KahnIdle
    /\ UNCHANGED <<kind, nodes, dependencies, rwDependencies, iterOrder, chron>>
    /\ UNCHANGED pairVars

InitKahn == kind = "simple" /\ Empty

NextKahn ==
    \/ kahn.pc = "idle" /\ \E payload \in Payloads : AddNode(payload)
    \/ /\ kahn.pc = "idle"
       /\ \E node, dependency \in 0 .. (MaxNodes - 1) : AddDependency(node, dependency)
    \/ KahnCall
    \/ KahnDequeue
    \/ KahnRelease
    \/ KahnReturn

SpecKahn == InitKahn /\ [][NextKahn]_vars

\* A sorter call is in progress.
Sorting == kahn.pc # "idle"

\* The nodes that have entered the ready queue so far, in the order they
\* entered it: those already moved to order, then those still queued.
Entered == kahn.order \o kahn.q

\* The number of map entries that name v as their element, duplicates counted.
IncomingEntries(map, v) ==
    Cardinality(UNION {{<<k, i>> : i \in {j \in 1 .. Len(map[k]) : map[k][j] = v}} :
                       k \in DOMAIN map})

\* The elements of a set of numbers, smallest first.
Ascending(S) ==
    CHOOSE p \in Orderings(S) : \A i, j \in 1 .. Len(p) : i < j => p[i] < p[j]

(***************************************************************************)
(* C14.  FIFO tie-breaking: when the sorter's loop starts, the nodes       *)
(* without incoming edge have entered the ready queue in ascending id      *)
(* order; a dequeue leaves the entry order as it is; a decrement appends   *)
(* its node exactly when it brings the node's in-degree to 0; and a call   *)
(* that returns returns the entry order (0,1,...,n-1 when there is no      *)
(* edge), which is what the sorter computes as a whole.                    *)
(***************************************************************************)
C14_FifoTieBreaking ==
    [][/\ (kahn.pc = "idle" /\ kahn'.pc # "idle") =>
             Entered' = Ascending({v \in NodeIds : IncomingEntries(SorterInput, v) = 0})
       /\ (kahn.pc = "loop" /\ kahn'.pc # "idle") => Entered' = Entered
       /\ (kahn.pc = "for") =>
             Entered' = IF kahn'.inDegree[Head(kahn.pending)] = 0
                        THEN Append(Entered, Head(kahn.pending))
                        ELSE Entered
       /\ (Sorting /\ kahn'.pc = "idle") =>
             /\ result'.status = "order" => result'.order = Entered
             /\ EntryCount(SorterInput) = 0 =>
                   result' = Returned([i \in 1 .. Len(nodes) |-> i - 1])
             /\ result' = TKahnTopologicalSort(Len(nodes), SorterInput)]_vars

\* A call has returned an order that is not ascending: a node has entered the
\* queue by a decrement, behind a node with a larger id.
C14_Witness ==
    /\ kahn.pc = "idle"
    /\ result.status = "order"
    /\ Len(result.order) = 3
    /\ \E i \in 1 .. 2 : result.order[i] > result.order[i + 1]

\* Some edge is listed more than once in the map.
HasDuplicateEdge(map) == EntryCount(map) > Cardinality(EdgeSet(map))

(***************************************************************************)
(* C15.  Duplicate edges are harmless: when the map handed to the sorter   *)
(* lists an edge more than once, the in-degree the sorter counts for each  *)
(* node is the number of entries naming it, duplicates included; the call  *)
(* fails only if the set of edges holds a cycle; and a call that returns   *)
(* has matched every increment by a decrement and returns every node       *)
(* once, in an order that respects every edge.                             *)
(***************************************************************************)
C15_DuplicateEdgesHarmless ==
    (Built /\ HasDuplicateEdge(SorterInput)) =>
        LET input == SorterInput
            counted == KahnStart(Len(nodes), input).inDegree
            final == KahnFinal(Len(nodes), input).inDegree
        IN /\ \A v \in NodeIds : counted[v] = IncomingEntries(input, v)
           /\ result.status = "cycle" => HasCycle(EdgeSet(input))
           /\ result.status = "order" =>
                 /\ IsPermutationOfIds(result.order, Len(nodes))
                 /\ \A e \in EdgeSet(input) : Before(result.order, e[1], e[2])
                 /\ \A v \in NodeIds : final[v] = 0

\* The hazard derivation has emitted the same edge twice and nothing else, and
\* the call has returned.
C15_Witness ==
    /\ kind = "rw"
    /\ result.status = "order"
    /\ HasDuplicateEdge(SorterInput)
    /\ Cardinality(EdgeSet(SorterInput)) = 1
    /\ EntryCount(SorterInput) = 2

(***************************************************************************)
(* Vocabulary for the course of one hazard derivation.                     *)
(***************************************************************************)
\* The accesses in the order the derivation processes them: node by node in
\* the container's order, each node's log from first to last.
RECURSIVE ProcessingSequence(_, _)
ProcessingSequence(deps, order) ==
    IF order = <<>> THEN <<>>
    ELSE [i \in 1 .. Len(deps[Head(order)]) |->
             [caller |-> Head(order), access |-> deps[Head(order)][i]]]
         \o ProcessingSequence(deps, Tail(order))

Processing == ProcessingSequence(rwDependencies, iterOrder)

\* The locals of the derivation when it has processed the first k accesses of
\* the sequence.
HazardsAfter(sequence, k) ==
    ReplayChronological(InitialHazardState, SubSeq(sequence, 1, k))

\* The number of times the map lists the edge from -> to.
EdgeCount(map, from, to) ==
    IF from \in DOMAIN map
    THEN Cardinality({i \in 1 .. Len(map[from]) : map[from][i] = to})
    ELSE 0

\* The k-th access of the sequence is a write by a node to a resource whose
\* last writer is another node and whose readers set is not empty.
WriteAfterReads(sequence, k) ==
    /\ k \in 1 .. Len(sequence)
    /\ sequence[k].access.type = "WRITE"
    /\ LET current == CurrentResourceState(HazardsAfter(sequence, k - 1).resourceStates,
                                           sequence[k].access.node)
       IN /\ current.lastWriter \notin {SIZE_MAX, sequence[k].caller}
          /\ current.lastReaders # {}

(***************************************************************************)
(* C16.  Write handling: when the derivation processes a write by W to R   *)
(* while R has a last writer L # W and a non-empty readers set, it emits   *)
(* the WAW edge L -> W and a WAR edge r -> W for every reader r # W and    *)
(* no other edge; afterwards R has no readers and last writer W, and a     *)
(* read of R by any X # W processed next emits the edge W -> X and no      *)
(* other.                                                                  *)
(***************************************************************************)
C16_WriteAfterReads ==
    (kind = "rw" /\ Built) =>
        LET sequence == Processing
        IN /\ HazardsAfter(sequence, Len(sequence)) = Hazards
           /\ \A k \in 1 .. Len(sequence) : WriteAfterReads(sequence, k) =>
                 LET W == sequence[k].caller
                     R == sequence[k].access.node
                     before == HazardsAfter(sequence, k - 1)
                     after == ProcessAccess(before, W, sequence[k].access)
                     L == before.resourceStates[R].lastWriter
                     readers == before.resourceStates[R].lastReaders \ {W}
                 IN /\ after = HazardsAfter(sequence, k)
                    /\ Tagged({L}, W, R, "WAW") \subseteq after.emitted
                    /\ Tagged(readers, W, R, "WAR") \subseteq after.emitted
                    /\ \A u, v \in NodeIds :
                          EdgeCount(after.outDependencies, u, v)
                              = EdgeCount(before.outDependencies, u, v)
                                + (IF v = W /\ u = L THEN 1 ELSE 0)
                                + (IF v = W /\ u \in readers THEN 1 ELSE 0)
                    /\ after.resourceStates[R] = [lastWriter |-> W, lastReaders |-> {}]
                    /\ \A X \in NodeIds \ {W} :
                          LET later == ReadAccess(after, X, R)
                          IN \A u, v \in NodeIds :
                                EdgeCount(later.outDependencies, u, v)
                                    = EdgeCount(after.outDependencies, u, v)
                                      + (IF u = W /\ v = X THEN 1 ELSE 0)

\* A derivation has processed a write to a resource that another node wrote
\* and a third node read before.
C16_Witness ==
    /\ kind = "rw"
    /\ Built
    /\ \E k \in 1 .. Len(Processing) :
          /\ WriteAfterReads(Processing, k)
          /\ LET current == HazardsAfter(Processing, k - 1)
                                .resourceStates[Processing[k].access.node]
             IN current.lastReaders \ {Processing[k].caller, current.lastWriter} # {}

(***************************************************************************)
(* C17.  Termination of the sort: while a call is in progress the number   *)
(* of nodes dequeued plus the number still queued never exceeds the node   *)
(* count, and every step of the call either dequeues one more node,        *)
(* or shortens the list of dependents the inner loop has still to visit,   *)
(* or ends the call, which it does exactly when the queue is found empty,  *)
(* by returning an order or by the cycle error.  So the loop ends after    *)
(* at most nodeCount dequeues, for cyclic and acyclic inputs alike.        *)
(***************************************************************************)
C17_SortTerminates ==
    [][Sorting =>
          /\ Len(kahn.order) + Len(kahn.q) <= Len(nodes)
          /\ \/ /\ kahn'.pc = "idle"
                /\ kahn.q = <<>> /\ kahn.pending = <<>>
                /\ result'.status \in {"order", "cycle"}
             \/ /\ Sorting'
                /\ kahn.q # <<>> /\ kahn.pending = <<>>
                /\ Len(kahn'.order) = Len(kahn.order) + 1
                /\ Len(kahn'.order) <= Len(nodes)
             \/ /\ Sorting'
                /\ kahn'.order = kahn.order
                /\ Len(kahn'.pending) < Len(kahn.pending)]_vars

\* The loop is about to end on a graph with a cycle: some nodes were
\* dequeued, the others never became ready.
C17_Witness ==
    /\ kahn.pc = "loop"
    /\ kahn.q = <<>>
    /\ kahn.order # <<>>
    /\ Len(kahn.order) < Len(nodes)
    /\ HasCycle(EdgeSet(dependencies))

\* The number of entries of the map that name v as their element and whose
\* key is a node that has not been dequeued, duplicates counted.
UndequeuedEntries(map, v) ==
    Cardinality(UNION {{<<k, i>> : i \in {j \in 1 .. Len(map[k]) : map[k][j] = v}} :
                       k \in (DOMAIN map \cap NodeIds) \ Range(kahn.order)})

\* The number of times v stands in the sequence s.
Occurrences(s, v) == Cardinality({i \in 1 .. Len(s) : s[i] = v})

(***************************************************************************)
(* C20.  Loop invariant of the sorter: whenever the while loop is tested,  *)
(* inDegree[v] is at least 0 and equals the number of edges (u, v),        *)
(* duplicates counted, whose source u has not been dequeued; inside the    *)
(* inner loop the edges of the node just dequeued that are still to be     *)
(* visited count as well.  A node has entered the ready queue if and only  *)
(* if its in-degree is 0, and no node has entered it twice.                *)
(***************************************************************************)
C20_InDegreeInvariant ==
    Sorting =>
        /\ \A v \in NodeIds :
              /\ kahn.inDegree[v] >= 0
              /\ kahn.pc = "loop" =>
                    kahn.inDegree[v] = UndequeuedEntries(SorterInput, v)
              /\ kahn.inDegree[v] = UndequeuedEntries(SorterInput, v)
                                    + Occurrences(kahn.pending, v)
              /\ v \in Range(Entered) <=> kahn.inDegree[v] = 0
        /\ \A v \in Range(Entered) : Occurrences(Entered, v) = 1

\* The inner loop is between the two visits of a duplicate edge: the first
\* decrement is done, the second is pending.
C20_Witness ==
    /\ kahn.pc = "for"
    /\ Len(kahn.pending) = 1
    /\ LET v == Head(kahn.pending)
           u == kahn.order[Len(kahn.order)]
       IN /\ EdgeCount(SorterInput, u, v) = 2
          /\ kahn.inDegree[v] = 1
          /\ v \notin Range(Entered)

(***************************************************************************)
(* C18.  The read/write graph never fails: every edge the derivation       *)
(* emits goes from a node whose log was processed earlier to the node      *)
(* whose log is being processed, so the derived edges hold no cycle and    *)
(* buildExecutionOrder returns an order after every sequence of addNode,   *)
(* addRead and addWrite calls.                                             *)
(***************************************************************************)
C18_ReadWriteNeverCyclic ==
    (kind = "rw" /\ Built) =>
        LET derived == Hazards
        IN /\ \A e \in derived.emitted : Before(iterOrder, e.from, e.to)
           /\ \A e \in EdgeSet(derived.outDependencies) : Before(iterOrder, e[1], e[2])
           /\ ~HasCycle(EdgeSet(derived.outDependencies))
           /\ result.status = "order"

\* A writes R, B writes R, A writes R, in this order of the calls: replayed in
\* call order the hazards form a cycle, and the call has returned an order.
C18_Witness ==
    /\ kind = "rw"
    /\ result.status = "order"
    /\ Len(chron) = 3
    /\ chron[1] = chron[3]
    /\ chron[1].caller # chron[2].caller
    /\ chron[1].access = chron[2].access
    /\ chron[1].access.type = "WRITE"
    /\ HasCycle(EdgeSet(ReplayChronological(InitialHazardState, chron).outDependencies))

\* buildExecutionOrder, called on the simple graph as it is now, would fail
\* with the cycle error.
BuildWouldFail ==
    TKahnTopologicalSort(Len(nodes), dependencies) = CycleError

(***************************************************************************)
(* C19.  Cycle failure is permanent in the simple graph: a call fails      *)
(* with the cycle error exactly when the graph it is called on is one on   *)
(* which the build fails, and no call turns such a graph into one on       *)
(* which the build returns.  So once a call has failed, every later call   *)
(* fails, whatever addNode and addDependency calls come between.           *)
(***************************************************************************)
C19_CycleFailureIsPermanent ==
    [][kind = "simple" =>
          /\ (result'.status \in {"order", "cycle"}) =>
                (result' = CycleError <=> BuildWouldFail)
          /\ BuildWouldFail =>
                \A n \in {Len(nodes')} : \A deps \in {dependencies'} :
                   TKahnTopologicalSort(n, deps) = CycleError]_vars

\* A call has failed on a graph that holds more than its cycle: a third node
\* and an edge without which the cycle is still there.
C19_Witness ==
    /\ kind = "simple"
    /\ result = CycleError
    /\ Len(nodes) = 3
    /\ \E e \in EdgeSet(dependencies) :
          /\ e[1] # e[2]
          /\ HasCycle(EdgeSet(dependencies) \ {e})

=============================================================================
